---- MODULE Spec2Model ----
(***************************************************************************)
(* Toon thermostat climate entity (custom_components/toon_climate).       *)
(*                                                                         *)
(* The entity (ThermostatDevice) polls the device over HTTP and sends it  *)
(* commands.  Every coroutine is cut at its await points: the code        *)
(* between two awaits is one atomic step of the event loop.  The device    *)
(* and the network are the environment.                                    *)
(*                                                                         *)
(* Temperatures held by the entity are in thousandths of a degree, the    *)
(* device's Setpoint / currentSetpoint / currentTemp in hundredths.       *)
(***************************************************************************)
EXTENDS Integers, Sequences, FiniteSets, TLC

(* ------------------------------------------------------------------ *)
(* Bounds of the model                                                 *)
(* ------------------------------------------------------------------ *)

\* HTTP requests the entity may send in one behaviour
MaxRequests == 3

(* ------------------------------------------------------------------ *)
(* Program constants                                                   *)
(* ------------------------------------------------------------------ *)

\* Python's None for a numeric attribute
None == -9999

\* DEFAULT_MIN_TEMP = 6.0 and DEFAULT_MAX_TEMP = 30.0, in thousandths
DEFAULT_MIN_TEMP == 6000
DEFAULT_MAX_TEMP == 30000

HVAC_MODE_HEAT == "heat"
HVAC_MODE_AUTO == "auto"
HVAC_MODE_OFF == "off"
\* self._hvac_mode = None
HVAC_NONE == "None"

PRESET_AWAY == <<"a", "w", "a", "y">>
PRESET_HOME == <<"h", "o", "m", "e">>
PRESET_COMFORT == <<"c", "o", "m", "f", "o", "r", "t">>
PRESET_SLEEP == <<"s", "l", "e", "e", "p">>
PRESET_ECO == <<"e", "c", "o">>

SUPPORT_PRESETS ==
    {PRESET_AWAY, PRESET_HOME, PRESET_COMFORT, PRESET_SLEEP, PRESET_ECO}

SUPPORT_MODES == {HVAC_MODE_HEAT, HVAC_MODE_AUTO}

(* ------------------------------------------------------------------ *)
(* Strings: str.lower(), int(str), and the device's number formatting  *)
(* ------------------------------------------------------------------ *)

UpperCase ==
    <<"A", "B", "C", "D", "E", "F", "G", "H", "I", "J", "K", "L", "M",
      "N", "O", "P", "Q", "R", "S", "T", "U", "V", "W", "X", "Y", "Z">>

LowerCase ==
    <<"a", "b", "c", "d", "e", "f", "g", "h", "i", "j", "k", "l", "m",
      "n", "o", "p", "q", "r", "s", "t", "u", "v", "w", "x", "y", "z">>

\* The lowercase letter of every uppercase letter
LowerTable ==
    [c \in {UpperCase[i] : i \in 1..26} |->
        LowerCase[CHOOSE i \in 1..26 : UpperCase[i] = c]]

LowerChar(c) == IF c \in DOMAIN LowerTable THEN LowerTable[c] ELSE c

\* str.lower()
Lower(s) == [i \in 1..Len(s) |-> LowerChar(s[i])]

Digits == <<"0", "1", "2", "3", "4", "5", "6", "7", "8", "9">>

IsDigit(c) == \E i \in 1..10 : Digits[i] = c

DigitVal(c) == (CHOOSE i \in 1..10 : Digits[i] = c) - 1

\* int(s) succeeds (no ValueError) on a non-empty string of digits
IsNumeric(s) == Len(s) > 0 /\ \A i \in 1..Len(s) : IsDigit(s[i])

RECURSIVE ParseInt(_)
\* int(s) for a string of digits
ParseInt(s) ==
    IF Len(s) = 0 THEN 0
    ELSE ParseInt(SubSeq(s, 1, Len(s) - 1)) * 10 + DigitVal(s[Len(s)])

RECURSIVE ToStr(_)
\* The device prints a non-negative number as a decimal string
ToStr(n) ==
    IF n < 10 THEN <<Digits[n + 1]>>
    ELSE ToStr(n \div 10) \o <<Digits[(n % 10) + 1]>>

(* ------------------------------------------------------------------ *)
(* JSON values, HTTP requests and responses                            *)
(* ------------------------------------------------------------------ *)

\* The fields async_update decodes, in the order it decodes them
FieldOrder ==
    <<"activeState", "burnerInfo", "currentModulationLevel",
      "currentSetpoint", "currentTemp", "otCommError", "programState">>

Fields == {FieldOrder[i] : i \in 1..Len(FieldOrder)}

\* A JSON mapping is a function from its keys to strings
EmptyMap == [k \in {} |-> <<>>]

\* The value held by self._data: None, or a parsed JSON mapping
DataNone == [isNone |-> TRUE, map |-> EmptyMap]
DataMap(m) == [isNone |-> FALSE, map |-> m]

\* Python truth value of self._data: None and {} are false
Truthy(d) == ~d.isNone /\ DOMAIN d.map # {}

\* A request URL: the action and its query parameters (None: absent)
Url(action, setpoint, state, temperatureState) ==
    [action |-> action, Setpoint |-> setpoint, state |-> state,
     temperatureState |-> temperatureState]

NoUrl == Url("", None, None, None)

\* A response body: parseable JSON (holding a mapping) or not
JsonBody(m) == [json |-> TRUE, map |-> m]
GarbageBody == [json |-> FALSE, map |-> EmptyMap]

\* The HTTP exchange of one coroutine:
\* status is "none", "pending" (request sent), "answered" or "failed"
NoExchange == [status |-> "none", url |-> NoUrl, body |-> GarbageBody, exc |-> ""]
Pending(url) == [status |-> "pending", url |-> url, body |-> GarbageBody, exc |-> ""]

\* except aiohttp.ClientError / except asyncio.TimeoutError around session.get
CaughtOnGet == {"ClientError", "TimeoutError"}

\* except (TypeError, KeyError) around response.json
CaughtOnJson == {"TypeError", "KeyError"}

\* response.json raises json.JSONDecodeError on a body that is not JSON
JsonError(body) == IF body.json THEN "" ELSE "JSONDecodeError"

(* ------------------------------------------------------------------ *)
(* Inputs                                                              *)
(* ------------------------------------------------------------------ *)

\* Configured <<min_temp, max_temp>> pairs: the defaults, both beyond the
\* device's limits, min above max (and both on the wrong side of the
\* limits), and a narrower range
Configs ==
    {<<6000, 30000>>, <<5000, 31000>>, <<35000, 2000>>, <<20500, 30000>>}

\* Temperatures asked for, in thousandths of a degree
TempInputs == {5500, 19996, 21000, 30500}

PresetInputs ==
    {PRESET_AWAY, <<"A", "w", "a", "y">>, <<"H", "O", "M", "E">>,
     PRESET_COMFORT, PRESET_SLEEP, <<"E", "c", "o">>,
     <<"b", "o", "o", "s", "t">>, <<"n", "o", "n", "e">>}

ModeInputs == {HVAC_MODE_HEAT, HVAC_MODE_AUTO, HVAC_MODE_OFF, "cool"}

\* States the device may be in by itself (schedule, manual operation)
MkDev(a, b, m, sp, t, ot, p) ==
    [k \in Fields |->
        CASE k = "activeState" -> a
          [] k = "burnerInfo" -> b
          [] k = "currentModulationLevel" -> m
          [] k = "currentSetpoint" -> sp
          [] k = "currentTemp" -> t
          [] k = "otCommError" -> ot
          [] k = "programState" -> p]

Profiles ==
    {MkDev(1, 0, 0, 2000, 1900, 0, 0),
     MkDev(4, 1, 50, 1200, 1875, 1, 1),
     MkDev(3, 3, 20, 1950, 1800, 0, 4)}

\* Keys a malformed snapshot may lack / hold a non-numeric value for
DropFields == {"currentModulationLevel"}
BadFields == {"programState"}

(* ------------------------------------------------------------------ *)
(* State                                                               *)
(* ------------------------------------------------------------------ *)

VARIABLES
    min_temp,             \* self._min_temp
    max_temp,             \* self._max_temp
    data,                 \* self._data
    active_state,         \* self._active_state
    burner_info,          \* self._burner_info
    modulation_level,     \* self._modulation_level
    current_setpoint,     \* self._current_setpoint
    current_temperature,  \* self._current_temperature
    ot_comm_error,        \* self._ot_comm_error
    program_state,        \* self._program_state
    hvac_mode,            \* self._hvac_mode
    poll,                 \* the async_update coroutine
    cmd,                  \* the command coroutine (set temperature/preset/mode)
    dev,                  \* the thermostat's own state
    requests,             \* number of HTTP requests sent so far
    health,               \* whether the device answers every poll well
    registry              \* the host's entity registry

config == <<min_temp, max_temp>>

decoded ==
    <<active_state, burner_info, modulation_level, current_setpoint,
      current_temperature, ot_comm_error, program_state, hvac_mode>>

\* What no method of the entity touches
world == <<health, registry>>

vars == <<world, config, data, decoded, poll, cmd, dev, requests>>

\* The device may answer polls badly or not at all; after_failures tells
\* whether the last poll and the last command had raised when that stopped
Unhealthy == [ok |-> FALSE, after_failures |-> FALSE]

\* ClampMin without the comparison against the device's minimum
ClampMinUnchecked(c) == c

\* __init__: the configured limits are kept within the device's limits
ClampMin(c) == IF c >= DEFAULT_MIN_TEMP THEN c ELSE DEFAULT_MIN_TEMP
ClampMax(c) == IF c <= DEFAULT_MAX_TEMP THEN c ELSE DEFAULT_MAX_TEMP

PollIdle == [pc |-> "idle", ex |-> NoExchange, out |-> "none", exc |-> ""]

CmdIdle ==
    [pc |-> "idle", op |-> "", t |-> None, ex |-> NoExchange,
     out |-> "none", exc |-> ""]

Init ==
    /\ \E c \in Configs :
        /\ min_temp = ClampMin(c[1])
        /\ max_temp = ClampMax(c[2])
    /\ data = DataNone
    /\ active_state = None
    /\ burner_info = None
    /\ modulation_level = None
    /\ current_setpoint = None
    /\ current_temperature = None
    /\ ot_comm_error = None
    /\ program_state = None
    /\ hvac_mode = HVAC_NONE
    /\ poll = PollIdle
    /\ cmd = CmdIdle
    /\ dev \in Profiles
    /\ requests = 0
    /\ health = Unhealthy
    /\ registry = {}

(* ------------------------------------------------------------------ *)
(* do_api_request                                                      *)
(* ------------------------------------------------------------------ *)

\* do_api_request suspends at "await session.get" and at "await
\* response.json"; nothing of the entity is read or written between the
\* two, so the coroutine is resumed once, with the exchange's outcome.

\* The exception that leaves do_api_request ("" when it returns):
\* the first try block catches the exceptions of CaughtOnGet, the second
\* those of CaughtOnJson
ApiRaises(ex) ==
    IF ex.status = "failed"
    THEN IF ex.exc \in CaughtOnGet THEN "" ELSE ex.exc
    ELSE IF JsonError(ex.body) \in CaughtOnJson THEN ""
    ELSE JsonError(ex.body)

\* The value do_api_request returns
ApiResult(ex) ==
    IF ex.status = "answered" /\ JsonError(ex.body) = ""
    THEN DataMap(ex.body.map)
    ELSE DataNone

(* ------------------------------------------------------------------ *)
(* async_update                                                        *)
(* ------------------------------------------------------------------ *)

\* Key k of mapping m converts without an exception
Decodes(m, k) == k \in DOMAIN m /\ IsNumeric(m[k])

\* Index in FieldOrder of the first assignment that raises (8: none does)
FirstBad(m) ==
    IF \A i \in 1..Len(FieldOrder) : Decodes(m, FieldOrder[i])
    THEN Len(FieldOrder) + 1
    ELSE CHOOSE i \in 1..Len(FieldOrder) :
            /\ ~Decodes(m, FieldOrder[i])
            /\ \A j \in 1..(i - 1) : Decodes(m, FieldOrder[j])

\* The exception the decoding raises ("" when none)
DecodeRaises(m) ==
    IF FirstBad(m) > Len(FieldOrder) THEN ""
    ELSE IF FieldOrder[FirstBad(m)] \in DOMAIN m THEN "ValueError"
    ELSE "KeyError"

\* Value of the i-th decoded attribute after decoding m: assigned when
\* no earlier assignment raised
DecodeField(m, i, old, scale) ==
    IF i < FirstBad(m) THEN ParseInt(m[FieldOrder[i]]) * scale ELSE old

\* HvacModeOf with programState tested before activeState
HvacModeOfProgramFirst(a, p) ==
    IF p = 0 THEN HVAC_MODE_HEAT
    ELSE IF p = 1 \/ p = 2 THEN HVAC_MODE_AUTO
    ELSE IF a = 4 THEN HVAC_MODE_OFF
    ELSE HVAC_NONE

\* The if/elif chain setting self._hvac_mode
HvacModeOf(a, p) ==
    IF a = 4 THEN HVAC_MODE_OFF
    ELSE IF p = 0 THEN HVAC_MODE_HEAT
    ELSE IF p = 1 \/ p = 2 THEN HVAC_MODE_AUTO
    ELSE HVAC_NONE

\* "if self._data:" and the assignments under it
DecodeInto(d) ==
    IF Truthy(d)
    THEN LET m == d.map IN
         /\ active_state' = DecodeField(m, 1, active_state, 1)
         /\ burner_info' = DecodeField(m, 2, burner_info, 1)
         /\ modulation_level' = DecodeField(m, 3, modulation_level, 1)
         /\ current_setpoint' = DecodeField(m, 4, current_setpoint, 10)
         /\ current_temperature' = DecodeField(m, 5, current_temperature, 10)
         /\ ot_comm_error' = DecodeField(m, 6, ot_comm_error, 1)
         /\ program_state' = DecodeField(m, 7, program_state, 1)
         /\ hvac_mode' =
               IF FirstBad(m) > Len(FieldOrder)
               THEN HvacModeOf(active_state', program_state')
               ELSE hvac_mode
    ELSE UNCHANGED decoded

\* StartUpdate that the host skips once a poll has raised
StartUpdateUnlessRaised ==
    /\ poll.pc = "idle"
    /\ poll.out # "raised"
    /\ poll' = [pc |-> "await",
                ex |-> Pending(Url("getThermostatInfo", None, None, None)),
                out |-> "running", exc |-> ""]
    /\ UNCHANGED <<world, config, data, decoded, cmd, dev>>

\* async_update up to its await: the request is sent
StartUpdate ==
    /\ poll.pc = "idle"
    /\ poll' = [pc |-> "await",
                ex |-> Pending(Url("getThermostatInfo", None, None, None)),
                out |-> "running", exc |-> ""]
    /\ UNCHANGED <<world, config, data, decoded, cmd, dev>>

\* A poll of the host, counted against the bound on requests
AsyncUpdateCall ==
    /\ requests < MaxRequests
    /\ StartUpdate
    /\ requests' = requests + 1

\* async_update resumed with the outcome of do_api_request, to its end
AsyncUpdateResume ==
    /\ poll.pc = "await"
    /\ poll.ex.status \in {"answered", "failed"}
    /\ IF ApiRaises(poll.ex) # ""
       THEN /\ poll' = [PollIdle EXCEPT !.out = "raised",
                                        !.exc = ApiRaises(poll.ex)]
            /\ UNCHANGED <<data, decoded>>
       ELSE LET d == ApiResult(poll.ex)
                e == IF Truthy(d) THEN DecodeRaises(d.map) ELSE ""
            IN  /\ data' = d
                /\ DecodeInto(d)
                /\ poll' = [PollIdle EXCEPT
                               !.out = IF e = "" THEN "returned" ELSE "raised",
                               !.exc = e]
    /\ UNCHANGED <<world, config, cmd, dev, requests>>

(* ------------------------------------------------------------------ *)
(* Read properties of the entity                                       *)
(* ------------------------------------------------------------------ *)

\* preset_mode returns None
PRESET_NONE == <<"N", "o", "n", "e">>

CURRENT_HVAC_HEAT == "heating"
CURRENT_HVAC_IDLE == "idle"

\* The preset the constructor stores under code k in self._valid_presets
PresetOfCode(k) ==
    CASE k = 0 -> PRESET_COMFORT
      [] k = 1 -> PRESET_HOME
      [] k = 2 -> PRESET_SLEEP
      [] k = 3 -> PRESET_AWAY
      [] k = 4 -> PRESET_ECO

\* self._valid_presets: a code is a key when its preset is supported
ValidPresets ==
    [k \in {c \in 0..4 : PresetOfCode(c) \in SUPPORT_PRESETS} |->
        PresetOfCode(k)]

\* PresetMode with a plain lookup in a table that lacks code 4
PresetModeWithoutEco(a) ==
    IF a \in 0..3 THEN PresetOfCode(a) ELSE PRESET_NONE

\* preset_mode: self._valid_presets[self._active_state], None on KeyError
PresetMode(a) ==
    IF a \in DOMAIN ValidPresets THEN ValidPresets[a] ELSE PRESET_NONE

\* HvacAction testing burnerInfo 1 alone
HvacActionBurnerOneOnly(b) ==
    IF b = 1 THEN CURRENT_HVAC_HEAT ELSE CURRENT_HVAC_IDLE

\* hvac_action
HvacAction(b) ==
    IF b = 1 \/ b = 3 THEN CURRENT_HVAC_HEAT ELSE CURRENT_HVAC_IDLE

\* hvac_modes
HvacModes == SUPPORT_MODES

(* ------------------------------------------------------------------ *)
(* Commands                                                            *)
(* ------------------------------------------------------------------ *)

\* value = int(target_temperature * 100): truncation toward zero
SetpointValue(t) == t \div 10

\* OutOfRange without the comparison against the maximum
OutOfRangeBelowOnly(t) == t < min_temp

\* (target_temperature < self._min_temp) or (target_temperature > self._max_temp)
OutOfRange(t) == t < min_temp \/ t > max_temp

\* A command returns before any request: only the call itself is recorded
Rejected(op) ==
    /\ cmd' = [CmdIdle EXCEPT !.op = op, !.out = "rejected"]
    /\ UNCHANGED <<world, config, data, decoded, poll, dev, requests>>

\* A command runs up to its await: its request is sent
Sent(op, t, url) ==
    /\ requests < MaxRequests
    /\ cmd' = [pc |-> "await", op |-> op, t |-> t, ex |-> Pending(url),
               out |-> "running", exc |-> ""]
    /\ requests' = requests + 1
    /\ UNCHANGED <<world, config, data, decoded, poll, dev>>

\* async_set_temperature up to its first await (or to its early return)
AsyncSetTemperature(t) ==
    /\ cmd.pc = "idle"
    /\ IF OutOfRange(t)
       THEN Rejected("set_temperature")
       ELSE Sent("set_temperature", t,
                 Url("setSetpoint", SetpointValue(t), None, None))

\* PresetScheme comparing the preset as given, not lowercased
PresetSchemeCaseSensitive(p) ==
    IF p = PRESET_COMFORT THEN <<0, 2>>
    ELSE IF p = PRESET_HOME THEN <<1, 2>>
    ELSE IF p = PRESET_SLEEP THEN <<2, 2>>
    ELSE IF p = PRESET_AWAY THEN <<3, 2>>
    ELSE IF p = PRESET_ECO THEN <<4, 8>>
    ELSE <<-1, 2>>

\* The if/elif chain of async_set_preset_mode: <<scheme_temp, scheme_state>>
PresetScheme(p) ==
    IF Lower(p) = PRESET_COMFORT THEN <<0, 2>>
    ELSE IF Lower(p) = PRESET_HOME THEN <<1, 2>>
    ELSE IF Lower(p) = PRESET_SLEEP THEN <<2, 2>>
    ELSE IF Lower(p) = PRESET_AWAY THEN <<3, 2>>
    ELSE IF Lower(p) = PRESET_ECO THEN <<4, 8>>
    ELSE <<-1, 2>>

\* not(preset_mode.lower() in SUPPORT_PRESETS)
PresetUnsupported(p) == Lower(p) \notin SUPPORT_PRESETS

\* async_set_preset_mode up to its first await (or to its early return)
AsyncSetPresetMode(p) ==
    /\ cmd.pc = "idle"
    /\ IF PresetUnsupported(p)
       THEN Rejected("set_preset_mode")
       ELSE Sent("set_preset_mode", None,
                 Url("changeSchemeState", None,
                     PresetScheme(p)[2], PresetScheme(p)[1]))

\* ModeUnsupported with HVAC_MODE_OFF among the supported modes
ModeUnsupportedButOff(m) == m \notin SUPPORT_MODES \cup {HVAC_MODE_OFF}

\* not(str(hvac_mode) in SUPPORT_MODES)
ModeUnsupported(m) == m \notin SUPPORT_MODES

\* HvacUrl sending the home preset with every heat request
HvacUrlAlwaysHome(m, a) ==
    IF m = HVAC_MODE_HEAT THEN Url("changeSchemeState", None, 0, 1)
    ELSE IF m = HVAC_MODE_AUTO THEN Url("changeSchemeState", None, 1, None)
    ELSE IF m = HVAC_MODE_OFF THEN Url("changeSchemeState", None, 8, 4)
    ELSE NoUrl

\* The if/elif chain of async_set_hvac_mode: the request of mode m while
\* the last decoded activeState is a (NoUrl: no branch is taken)
HvacUrl(m, a) ==
    IF m = HVAC_MODE_HEAT /\ a = 4
    THEN Url("changeSchemeState", None, 0, 1)
    ELSE IF m = HVAC_MODE_HEAT THEN Url("changeSchemeState", None, 0, None)
    ELSE IF m = HVAC_MODE_AUTO THEN Url("changeSchemeState", None, 1, None)
    ELSE IF m = HVAC_MODE_OFF THEN Url("changeSchemeState", None, 8, 4)
    ELSE NoUrl

\* async_set_hvac_mode up to its first await (or to its return)
AsyncSetHvacMode(m) ==
    /\ cmd.pc = "idle"
    /\ IF ModeUnsupported(m)
       THEN Rejected("set_hvac_mode")
       ELSE IF HvacUrl(m, active_state) = NoUrl
       THEN /\ cmd' = [CmdIdle EXCEPT !.op = "set_hvac_mode", !.out = "returned"]
            /\ UNCHANGED <<world, config, data, decoded, poll, dev, requests>>
       ELSE Sent("set_hvac_mode", None, HvacUrl(m, active_state))

\* self._current_setpoint after do_api_request returned r to
\* async_set_temperature(t)
HeldAfterSet(old, t, r) == t

\* CmdFinish that also takes the requested temperatureState as the
\* activeState once the device responded
CmdFinishOptimistic(r) ==
    /\ data' = r
    /\ current_setpoint' =
          IF cmd.op = "set_temperature"
          THEN HeldAfterSet(current_setpoint, cmd.t, r)
          ELSE current_setpoint
    /\ active_state' =
          IF Truthy(r) /\ cmd.ex.url.temperatureState # None
          THEN cmd.ex.url.temperatureState
          ELSE active_state
    /\ cmd' = [CmdIdle EXCEPT !.op = cmd.op, !.out = "returned"]
    /\ UNCHANGED <<burner_info, modulation_level,
                   current_temperature, ot_comm_error, program_state,
                   hvac_mode>>

\* The rest of a command once do_api_request returned r
CmdFinish(r) ==
    /\ data' = r
    /\ current_setpoint' =
          IF cmd.op = "set_temperature"
          THEN HeldAfterSet(current_setpoint, cmd.t, r)
          ELSE current_setpoint
    /\ cmd' = [CmdIdle EXCEPT !.op = cmd.op, !.out = "returned"]
    /\ UNCHANGED <<active_state, burner_info, modulation_level,
                   current_temperature, ot_comm_error, program_state,
                   hvac_mode>>

\* A command resumed with the outcome of do_api_request, to its end
CmdResume ==
    /\ cmd.pc = "await"
    /\ cmd.ex.status \in {"answered", "failed"}
    /\ IF ApiRaises(cmd.ex) # ""
       THEN /\ cmd' = [CmdIdle EXCEPT !.op = cmd.op, !.out = "raised",
                                      !.exc = ApiRaises(cmd.ex)]
            /\ UNCHANGED <<data, decoded>>
       ELSE CmdFinish(ApiResult(cmd.ex))
    /\ UNCHANGED <<world, config, poll, dev, requests>>

(* ------------------------------------------------------------------ *)
(* Environment: the thermostat and the network                         *)
(* ------------------------------------------------------------------ *)

Tasks == {"poll", "cmd"}

Exchange(k) == IF k = "poll" THEN poll.ex ELSE cmd.ex

SetExchange(k, e) ==
    IF k = "poll"
    THEN poll' = [poll EXCEPT !.ex = e] /\ UNCHANGED cmd
    ELSE cmd' = [cmd EXCEPT !.ex = e] /\ UNCHANGED poll

\* The getThermostatInfo answer of a device in state d
Snapshot(d) ==
    [k \in Fields \cup {"result"} |->
        IF k = "result" THEN <<"o", "k">> ELSE ToStr(d[k])]

OkMap == [k \in {"result"} |-> <<"o", "k">>]

Drop(m, f) == [k \in DOMAIN m \ {f} |-> m[k]]

Garble(m, f) == [m EXCEPT ![f] = <<"x">>]

\* Bodies the device may answer a request with
Bodies(url, d) ==
    IF url.action = "getThermostatInfo"
    THEN {JsonBody(Snapshot(d)), JsonBody(EmptyMap), GarbageBody}
         \cup {JsonBody(Drop(Snapshot(d), f)) : f \in DropFields}
         \cup {JsonBody(Garble(Snapshot(d), f)) : f \in BadFields}
    ELSE {JsonBody(OkMap), GarbageBody}

\* The device's state after it handled a request: setSetpoint sets its
\* setpoint; what changeSchemeState does to the device's scheme is the
\* firmware's business and is left out (the device keeps its scheme)
DeviceApply(d, url) ==
    IF url.action = "setSetpoint"
    THEN [d EXCEPT !["currentSetpoint"] = url.Setpoint]
    ELSE d

\* The device handles the request of coroutine k and answers it
DeviceHandle(k) ==
    /\ Exchange(k).status = "pending"
    /\ dev' = DeviceApply(dev, Exchange(k).url)
    /\ \E b \in Bodies(Exchange(k).url, dev') :
          SetExchange(k, [Exchange(k) EXCEPT !.status = "answered", !.body = b])
    /\ UNCHANGED <<world, config, data, decoded, requests>>

\* The request of coroutine k fails (connection error) or times out,
\* whether or not the device handled it
NetFail(k, exc) ==
    /\ Exchange(k).status \in {"pending", "answered"}
    /\ SetExchange(k, [Pending(Exchange(k).url) EXCEPT
                          !.status = "failed", !.exc = exc])
    /\ UNCHANGED <<world, config, data, decoded, dev, requests>>

(* ------------------------------------------------------------------ *)
(* Specification                                                       *)
(* ------------------------------------------------------------------ *)

Next ==
    \/ AsyncUpdateCall
    \/ AsyncUpdateResume
    \/ \E t \in TempInputs : AsyncSetTemperature(t)
    \/ \E p \in PresetInputs : AsyncSetPresetMode(p)
    \/ \E m \in ModeInputs : AsyncSetHvacMode(m)
    \/ CmdResume
    \/ \E k \in Tasks : DeviceHandle(k)
    \/ \E k \in Tasks : \E exc \in CaughtOnGet : NetFail(k, exc)

Spec == Init /\ [][Next]_vars

(* ------------------------------------------------------------------ *)
(* Polling a device in any of its codes                                *)
(* ------------------------------------------------------------------ *)

\* Largest activeState / burnerInfo code the polled device reports
MaxCode == 5

CodeDevices ==
    {MkDev(a, b, 0, 2000, 1900, 0, 1) : a \in 0..MaxCode, b \in 0..MaxCode}

InitPoll ==
    /\ min_temp = DEFAULT_MIN_TEMP
    /\ max_temp = DEFAULT_MAX_TEMP
    /\ data = DataNone
    /\ active_state = None
    /\ burner_info = None
    /\ modulation_level = None
    /\ current_setpoint = None
    /\ current_temperature = None
    /\ ot_comm_error = None
    /\ program_state = None
    /\ hvac_mode = HVAC_NONE
    /\ poll = PollIdle
    /\ cmd = CmdIdle
    /\ dev \in CodeDevices
    /\ requests = 0
    /\ health = Unhealthy
    /\ registry = {}

NextPoll ==
    \/ AsyncUpdateCall
    \/ AsyncUpdateResume
    \/ DeviceHandle("poll")
    \/ \E exc \in CaughtOnGet : NetFail("poll", exc)

\* The entity polling a device that reports any code
SpecPoll == InitPoll /\ [][NextPoll]_vars

(* ------------------------------------------------------------------ *)
(* The end-to-end scenario                                             *)
(* ------------------------------------------------------------------ *)

\* A device whose snapshot holds activeState 3, burnerInfo 1,
\* programState 1, currentSetpoint 1950, currentTemp 1875, otCommError 0
ScenarioDevice == MkDev(3, 1, 0, 1950, 1875, 0, 1)

InitScenario ==
    /\ min_temp = DEFAULT_MIN_TEMP
    /\ max_temp = DEFAULT_MAX_TEMP
    /\ data = DataNone
    /\ active_state = None
    /\ burner_info = None
    /\ modulation_level = None
    /\ current_setpoint = None
    /\ current_temperature = None
    /\ ot_comm_error = None
    /\ program_state = None
    /\ hvac_mode = HVAC_NONE
    /\ poll = PollIdle
    /\ cmd = CmdIdle
    /\ dev = ScenarioDevice
    /\ requests = 0
    /\ health = Unhealthy
    /\ registry = {}

\* The entity with the scenario's device
SpecScenario == InitScenario /\ [][Next]_vars

(* ------------------------------------------------------------------ *)
(* Migration of the entity registry (async_migrate_entities)           *)
(* ------------------------------------------------------------------ *)

\* const.py: DOMAIN, the platform of the integration's entities
TOON_DOMAIN == "toon_climate"

DEFAULT_NAME ==
    <<"T", "o", "o", "n", " ", "T", "h", "e", "r", "m", "o", "s", "t", "a", "t">>

\* Strings of the registry
Climate == <<"c", "l", "i", "m", "a", "t", "e">>
Toon == <<"T", "o", "o", "n">>
LivingRoom == <<"L", "i", "v", "i", "n", "g", " ", "R", "o", "o", "m">>
ClimateToon == <<"c", "l", "i", "m", "a", "t", "e", ".", "t", "o", "o", "n">>
ClimateToonThermostat ==
    Climate \o <<".", "t", "o", "o", "n", "_", "t", "h", "e", "r", "m", "o", "s", "t", "a", "t">>
ClimateLivingRoom ==
    Climate \o <<".", "l", "i", "v", "i", "n", "g", "_", "r", "o", "o", "m">>
SensorToon == <<"s", "e", "n", "s", "o", "r", ".", "t", "o", "o", "n">>

\* str.replace(old, new) for single characters
Replace(s, old, new) ==
    [i \in 1..Len(s) |-> IF s[i] = old THEN new ELSE s[i]]

\* f"{entry.entry_id}_climate"
NewUniqueId(entry) == entry.entry_id \o <<"_", "c", "l", "i", "m", "a", "t", "e">>

\* f"climate_{name}_{host}"
OldUniqueId(name, host) == <<"c", "l", "i", "m", "a", "t", "e", "_">> \o name \o <<"_">> \o host

\* old_unique_ids of an entry
OldUniqueIds(entry) ==
    <<OldUniqueId(entry.name, entry.host),
      OldUniqueId(DEFAULT_NAME, entry.host),
      OldUniqueId(Toon, entry.host)>>

\* common_entity_ids of an entry
CommonEntityIds(entry) ==
    <<ClimateToon,
      ClimateToonThermostat,
      Climate \o <<".">> \o Replace(Lower(entry.name), " ", "_")>>

\* The domain of a registry entry: its entity_id up to the first dot
EntityDomain(entity_id) ==
    LET dots == {i \in 1..Len(entity_id) : entity_id[i] = "."}
        first == IF dots = {} THEN Len(entity_id) + 1
                 ELSE CHOOSE i \in dots : \A j \in dots : i <= j
    IN  SubSeq(entity_id, 1, first - 1)

\* entity_registry.async_get_entity_id(domain, platform, unique_id):
\* the entries it finds (one at most)
AsyncGetEntityId(domain, platform, unique_id) ==
    {ent \in registry : /\ EntityDomain(ent.entity_id) = domain
                        /\ ent.platform = platform
                        /\ ent.unique_id = unique_id}

\* The entries the loop over old_unique_id may stop at: the integration's
\* own entry if there is one, else any climate entity with that unique_id
FoundByUniqueId(old_unique_id) ==
    IF AsyncGetEntityId(Climate, TOON_DOMAIN, old_unique_id) # {}
    THEN AsyncGetEntityId(Climate, TOON_DOMAIN, old_unique_id)
    ELSE {ent \in registry : /\ EntityDomain(ent.entity_id) = Climate
                             /\ ent.unique_id = old_unique_id}

\* entity_registry.async_get(entity_id), kept when its platform is DOMAIN
FoundByEntityId(entity_id) ==
    {ent \in registry : /\ ent.entity_id = entity_id
                        /\ ent.platform = TOON_DOMAIN}

\* The least index of a sequence of sets whose set is not empty, else 0
FirstFound(sets) ==
    IF \A i \in 1..Len(sets) : sets[i] = {} THEN 0
    ELSE CHOOSE i \in 1..Len(sets) :
            /\ sets[i] # {}
            /\ \A j \in 1..(i - 1) : sets[j] = {}

\* entity_registry.async_update_entity(entity_id, new_unique_id=...)
AsyncUpdateEntity(ent, new_unique_id) ==
    registry' =
        (registry \ {ent}) \cup {[ent EXCEPT !.unique_id = new_unique_id]}

\* The config entries set up, [entry_id, host, name]
ConfigEntries ==
    {[entry_id |-> <<"e", "1">>, host |-> <<"h", "1">>, name |-> DEFAULT_NAME],
     [entry_id |-> <<"e", "2">>, host |-> <<"h", "2">>,
      name |-> LivingRoom]}

Hosts == {e.host : e \in ConfigEntries}

\* async_migrate_entities(hass, entry)
AsyncMigrateEntities(entry) ==
    LET new_unique_id == NewUniqueId(entry)
        byUid == [i \in 1..3 |-> FoundByUniqueId(OldUniqueIds(entry)[i])]
        byId == [i \in 1..3 |-> FoundByEntityId(CommonEntityIds(entry)[i])]
    IN  /\ IF AsyncGetEntityId(Climate, TOON_DOMAIN, new_unique_id) # {}
           THEN UNCHANGED registry
           ELSE IF FirstFound(byUid) # 0
           THEN \E ent \in byUid[FirstFound(byUid)] :
                    AsyncUpdateEntity(ent, new_unique_id)
           ELSE IF FirstFound(byId) # 0
           THEN \E ent \in byId[FirstFound(byId)] :
                    AsyncUpdateEntity(ent, new_unique_id)
           ELSE UNCHANGED registry
        /\ UNCHANGED <<health, config, data, decoded, poll, cmd, dev, requests>>

\* What the registry may hold under an entity_id before a set-up:
\* entities of the YAML platform with their old unique_id, entities
\* already carrying an entry's unique_id, entities of other platforms
Registered(entity_id) ==
    IF entity_id \in {ClimateToon, ClimateToonThermostat}
    THEN {[entity_id |-> entity_id, platform |-> TOON_DOMAIN, unique_id |-> u] :
             u \in {OldUniqueId(DEFAULT_NAME, h) : h \in Hosts}
                   \cup {OldUniqueId(Toon, h) : h \in Hosts}
                   \cup {NewUniqueId(e) : e \in ConfigEntries}}
    ELSE IF entity_id = ClimateLivingRoom
    THEN {[entity_id |-> entity_id, platform |-> pf,
           unique_id |-> OldUniqueId(LivingRoom, <<"h", "2">>)] :
             pf \in {TOON_DOMAIN, "generic_thermostat"}}
         \cup {[entity_id |-> entity_id, platform |-> TOON_DOMAIN,
                unique_id |-> NewUniqueId(e)] : e \in ConfigEntries}
    ELSE {[entity_id |-> entity_id, platform |-> "template",
           unique_id |-> OldUniqueId(DEFAULT_NAME, <<"h", "1">>)]}

EntityIds ==
    {ClimateToon, ClimateToonThermostat, ClimateLivingRoom, SensorToon}

\* The registry keeps (domain, platform, unique_id) unique
RegistryOk(r) ==
    \A x, y \in r :
        (/\ EntityDomain(x.entity_id) = EntityDomain(y.entity_id)
         /\ x.platform = y.platform
         /\ x.unique_id = y.unique_id) => x = y

Registries ==
    {r \in SUBSET UNION {Registered(i) : i \in EntityIds} :
        /\ \A x, y \in r : x.entity_id = y.entity_id => x = y
        /\ RegistryOk(r)}

InitMigrate ==
    /\ min_temp = DEFAULT_MIN_TEMP
    /\ max_temp = DEFAULT_MAX_TEMP
    /\ data = DataNone
    /\ active_state = None
    /\ burner_info = None
    /\ modulation_level = None
    /\ current_setpoint = None
    /\ current_temperature = None
    /\ ot_comm_error = None
    /\ program_state = None
    /\ hvac_mode = HVAC_NONE
    /\ poll = PollIdle
    /\ cmd = CmdIdle
    /\ dev = ScenarioDevice
    /\ requests = 0
    /\ health = Unhealthy
    /\ registry \in Registries

NextMigrate == \E entry \in ConfigEntries : AsyncMigrateEntities(entry)

\* async_setup_entry's migration over any registry
SpecMigrate == InitMigrate /\ [][NextMigrate]_vars

(* ------------------------------------------------------------------ *)
(* Polling on, once the device answers well                            *)
(* ------------------------------------------------------------------ *)

\* From here on the device answers every poll with its whole snapshot
Heal ==
    /\ ~health.ok
    /\ health' = [ok |-> TRUE,
                  after_failures |-> poll.out = "raised" /\ cmd.out = "raised"]
    /\ UNCHANGED <<registry, config, data, decoded, poll, cmd, dev, requests>>

\* should_poll: the host goes on calling async_update every interval
AsyncUpdateLive ==
    /\ health.ok
    /\ StartUpdate
    /\ UNCHANGED requests

\* The healed device answers the poll with its whole snapshot
HealthyAnswer ==
    /\ health.ok
    /\ poll.ex.status = "pending"
    /\ poll' = [poll EXCEPT !.ex = [@ EXCEPT !.status = "answered",
                                             !.body = JsonBody(Snapshot(dev))]]
    /\ UNCHANGED <<world, config, data, decoded, cmd, dev, requests>>

InitLive ==
    /\ min_temp = DEFAULT_MIN_TEMP
    /\ max_temp = DEFAULT_MAX_TEMP
    /\ data = DataNone
    /\ active_state = None
    /\ burner_info = None
    /\ modulation_level = None
    /\ current_setpoint = None
    /\ current_temperature = None
    /\ ot_comm_error = None
    /\ program_state = None
    /\ hvac_mode = HVAC_NONE
    /\ poll = PollIdle
    /\ cmd = CmdIdle
    /\ dev = ScenarioDevice
    /\ requests = 0
    /\ health = Unhealthy
    /\ registry = {}

NextLive ==
    \/ AsyncUpdateCall
    \/ AsyncUpdateLive
    \/ AsyncUpdateResume
    \/ \E t \in TempInputs : AsyncSetTemperature(t)
    \/ CmdResume
    \/ DeviceHandle("cmd")
    \/ \E exc \in CaughtOnGet : NetFail("cmd", exc)
    \/ ~health.ok /\ DeviceHandle("poll")
    \/ ~health.ok /\ \E exc \in CaughtOnGet : NetFail("poll", exc)
    \/ HealthyAnswer
    \/ Heal

\* The entity with a device that fails for a while and then answers
\* well: the host keeps polling, the event loop resumes a coroutine
\* whose response arrived, the healed device answers
SpecLive ==
    /\ InitLive
    /\ [][NextLive]_vars
    /\ WF_vars(AsyncUpdateLive)
    /\ WF_vars(AsyncUpdateResume)
    /\ WF_vars(HealthyAnswer)

(* ------------------------------------------------------------------ *)
(* Properties                                                          *)
(* ------------------------------------------------------------------ *)

\* A step on which async_update runs from its await to its end
PollCompletes == poll.pc = "await" /\ poll'.pc = "idle"

\* A step on which a command runs from its await to its end
CmdCompletes(op) == cmd.pc = "await" /\ cmd.op = op /\ cmd'.pc = "idle"

\* A command call that sends nothing and changes nothing of the entity
NothingDone ==
    /\ requests' = requests
    /\ cmd'.pc = "idle"
    /\ UNCHANGED <<world, config, data, decoded, poll, dev>>

\* C1: async_set_temperature(t) with t < min_temp or t > max_temp sends no
\* request and leaves the held target temperature, every other decoded
\* field and the raw response as they were.
C1_OutOfRangeTemperatureRejected ==
    [][\A t \in TempInputs :
          (AsyncSetTemperature(t) /\ (t < min_temp \/ t > max_temp))
              => NothingDone]_vars

\* A set-temperature call was rejected while a target temperature is held
C1_Witness ==
    /\ cmd.op = "set_temperature"
    /\ cmd.out = "rejected"
    /\ current_setpoint # None

\* C2: a poll whose request ends in a connection error, a timeout or a
\* body that is not JSON does not raise and leaves the decoded fields
\* unchanged.
C2_FailedPollIsSilent ==
    [][(PollCompletes /\ (poll.ex.status = "failed" \/ ~poll.ex.body.json))
          => (poll'.out # "raised" /\ UNCHANGED decoded)]_vars

\* C3: when the setSetpoint request fails (do_api_request returns None),
\* the held target temperature stays at its previous value.
C3_HeldTargetKeptOnFailure ==
    [][(CmdCompletes("set_temperature") /\ cmd.ex.status = "failed")
          => current_setpoint' = current_setpoint]_vars

\* The fields of a snapshot m, decoded all together
WholeSnapshot(m) ==
    /\ \A f \in Fields : f \in DOMAIN m /\ IsNumeric(m[f])
    /\ active_state' = ParseInt(m["activeState"])
    /\ burner_info' = ParseInt(m["burnerInfo"])
    /\ modulation_level' = ParseInt(m["currentModulationLevel"])
    /\ current_setpoint' = 10 * ParseInt(m["currentSetpoint"])
    /\ current_temperature' = 10 * ParseInt(m["currentTemp"])
    /\ ot_comm_error' = ParseInt(m["otCommError"])
    /\ program_state' = ParseInt(m["programState"])
    /\ hvac_mode' =
          CASE active_state' = 4 -> "off"
            [] active_state' # 4 /\ program_state' = 0 -> "heat"
            [] active_state' # 4 /\ program_state' \in {1, 2} -> "auto"
            [] OTHER -> "None"

\* C4: a poll either replaces all the decoded fields by those of its
\* snapshot or changes none of them.
C4_PollReplacesWholesale ==
    [][PollCompletes
          => (UNCHANGED decoded \/ WholeSnapshot(poll.ex.body.map))]_vars

\* C5: once a set-temperature has completed and the held target equals
\* the device's setpoint, a poll that completes leaves the held target
\* equal to the device's setpoint: a response produced before the device
\* applied the new setpoint does not overwrite the newer value.
C5_StalePollDoesNotOverwrite ==
    [][(/\ PollCompletes
        /\ cmd.pc = "idle" /\ cmd.op = "set_temperature"
        /\ cmd.out = "returned"
        /\ current_setpoint = 10 * dev["currentSetpoint"])
          => current_setpoint' = 10 * dev'["currentSetpoint"]]_vars

\* C6: the effective min_temp is at least 6.0, the effective max_temp at
\* most 30.0, and every setSetpoint request sent carries a Setpoint
\* between 600 and 3000 hundredths of a degree.
C6_SetpointWithinDeviceLimits ==
    /\ min_temp >= 6000
    /\ max_temp <= 30000
    /\ cmd.ex.url.action = "setSetpoint"
          => (cmd.ex.url.Setpoint >= 600 /\ cmd.ex.url.Setpoint <= 3000)

\* A setSetpoint request is in flight
C6_Witness ==
    /\ cmd.pc = "await"
    /\ cmd.ex.url.action = "setSetpoint"
    /\ cmd.ex.url.Setpoint = 1999

\* C7: async_set_hvac_mode(heat) sends exactly one changeSchemeState
\* request, state=0&temperatureState=1 when the last decoded activeState
\* is 4 and state=0 alone otherwise; async_set_hvac_mode(auto) sends
\* exactly one, state=1 alone.
C7_HvacModeRequests ==
    [][/\ AsyncSetHvacMode("heat")
            => /\ requests' = requests + 1
               /\ cmd'.ex.status = "pending"
               /\ cmd'.ex.url =
                     IF active_state = 4
                     THEN [action |-> "changeSchemeState", Setpoint |-> None,
                           state |-> 0, temperatureState |-> 1]
                     ELSE [action |-> "changeSchemeState", Setpoint |-> None,
                           state |-> 0, temperatureState |-> None]
       /\ AsyncSetHvacMode("auto")
            => /\ requests' = requests + 1
               /\ cmd'.ex.status = "pending"
               /\ cmd'.ex.url =
                     [action |-> "changeSchemeState", Setpoint |-> None,
                      state |-> 1, temperatureState |-> None]
       /\ CmdCompletes("set_hvac_mode") => requests' = requests]_vars

\* Heat was asked for while the last decoded activeState is 4
C7_Witness ==
    /\ cmd.op = "set_hvac_mode"
    /\ cmd.pc = "await"
    /\ active_state = 4
    /\ cmd.ex.url.state = 0
    /\ cmd.ex.url.temperatureState = 1

\* The (temperatureState, state) pair of a lowercase preset name
C8_Table(q) ==
    CASE q = <<"c", "o", "m", "f", "o", "r", "t">> -> <<0, 2>>
      [] q = <<"h", "o", "m", "e">> -> <<1, 2>>
      [] q = <<"s", "l", "e", "e", "p">> -> <<2, 2>>
      [] q = <<"a", "w", "a", "y">> -> <<3, 2>>
      [] q = <<"e", "c", "o">> -> <<4, 8>>

\* C8: for every supported preset, in any letter case,
\* async_set_preset_mode sends exactly one changeSchemeState request with
\* the (temperatureState, state) pair of the table; no request with
\* temperatureState=-1 is ever sent.
C8_PresetRequests ==
    [][/\ \A p \in PresetInputs :
            (AsyncSetPresetMode(p) /\ Lower(p) \in SUPPORT_PRESETS)
                => /\ requests' = requests + 1
                   /\ cmd'.ex.status = "pending"
                   /\ cmd'.ex.url.action = "changeSchemeState"
                   /\ cmd'.ex.url.Setpoint = None
                   /\ <<cmd'.ex.url.temperatureState, cmd'.ex.url.state>>
                         = C8_Table(Lower(p))
       /\ CmdCompletes("set_preset_mode") => requests' = requests
       /\ cmd'.ex.url.temperatureState # -1]_vars

\* The eco preset's request is in flight
C8_Witness ==
    /\ cmd.op = "set_preset_mode"
    /\ cmd.pc = "await"
    /\ cmd.ex.url.state = 8
    /\ cmd.ex.url.temperatureState = 4

\* C9: a preset outside the supported presets, or a mode other than heat
\* and auto (so also off), sends no request and changes no entity state.
C9_UnsupportedRejected ==
    [][/\ \A p \in PresetInputs :
            (AsyncSetPresetMode(p) /\ Lower(p) \notin SUPPORT_PRESETS)
                => NothingDone
       /\ \A m \in ModeInputs :
            (AsyncSetHvacMode(m) /\ m \notin {"heat", "auto"})
                => NothingDone]_vars

\* A set-hvac-mode call was rejected after a poll decoded the state
C9_Witness ==
    /\ cmd.op = "set_hvac_mode"
    /\ cmd.out = "rejected"
    /\ active_state # None

IsScenarioSnapshot(m) ==
    /\ DOMAIN m \cap Fields = Fields \ {"currentModulationLevel"}
    /\ m["activeState"] = <<"3">>
    /\ m["burnerInfo"] = <<"1">>
    /\ m["programState"] = <<"1">>
    /\ m["currentSetpoint"] = <<"1", "9", "5", "0">>
    /\ m["currentTemp"] = <<"1", "8", "7", "5">>
    /\ m["otCommError"] = <<"0">>

\* C11: polling a device that answers with the scenario's snapshot (no
\* currentModulationLevel) completes without error and yields preset
\* away, action heating, mode auto, target 19.5 and current 18.75.
C11_ScenarioDecoded ==
    [][(PollCompletes /\ poll.ex.status = "answered" /\ poll.ex.body.json
            /\ IsScenarioSnapshot(poll.ex.body.map))
          => /\ poll'.out = "returned"
             /\ PresetMode(active_state') = <<"a", "w", "a", "y">>
             /\ HvacAction(burner_info') = "heating"
             /\ hvac_mode' = "auto"
             /\ current_setpoint' = 19500
             /\ current_temperature' = 18750]_vars

\* C12: preset_mode is comfort, home, sleep, away, eco for activeState
\* 0, 1, 2, 3, 4 and none for every other value, not yet polled included.
C12_PresetOfActiveState ==
    PresetMode(active_state) =
        CASE active_state = 0 -> <<"c", "o", "m", "f", "o", "r", "t">>
          [] active_state = 1 -> <<"h", "o", "m", "e">>
          [] active_state = 2 -> <<"s", "l", "e", "e", "p">>
          [] active_state = 3 -> <<"a", "w", "a", "y">>
          [] active_state = 4 -> <<"e", "c", "o">>
          [] OTHER -> <<"N", "o", "n", "e">>

\* A poll decoded activeState 4 (eco); code 5 has no preset
C12_Witness ==
    /\ poll.out = "returned"
    /\ active_state = 4
    /\ PresetMode(active_state) = PRESET_ECO
    /\ PresetMode(5) = PRESET_NONE

\* C13: hvac_action is heating exactly when the last decoded burnerInfo
\* is 1 or 3, and idle for every other value and before the first poll.
C13_ActionOfBurnerInfo ==
    /\ burner_info \in {1, 3} => HvacAction(burner_info) = "heating"
    /\ burner_info \notin {1, 3} => HvacAction(burner_info) = "idle"

\* A poll decoded burnerInfo 3 (preheating)
C13_Witness ==
    /\ poll.out = "returned"
    /\ burner_info = 3
    /\ HvacAction(burner_info) = "heating"

\* C15: the Setpoint sent for an accepted temperature t is t rounded to
\* the nearest hundredth of a degree, not t truncated.
C15_SetpointRounded ==
    [][\A t \in TempInputs :
          (AsyncSetTemperature(t) /\ cmd'.pc = "await")
              => cmd'.ex.url.Setpoint = (t + 5) \div 10]_vars

\* C17: the reported hvac_mode is none or one of the modes listed by
\* hvac_modes.
C17_ModeIsListed ==
    hvac_mode = HVAC_NONE \/ hvac_mode \in HvacModes

\* C18: a set-preset or set-hvac-mode call, rejected or sent, changes no
\* decoded field and not the raw response; its completion changes no
\* decoded field (so neither the preset nor the action), and the raw
\* response only to what do_api_request returned.
C18_ModeCommandsKeepDecoded ==
    [][/\ (\E p \in PresetInputs : AsyncSetPresetMode(p))
            => UNCHANGED <<decoded, data>>
       /\ (\E m \in ModeInputs : AsyncSetHvacMode(m))
            => UNCHANGED <<decoded, data>>
       /\ (CmdCompletes("set_preset_mode") \/ CmdCompletes("set_hvac_mode"))
            => /\ UNCHANGED decoded
               /\ PresetMode(active_state') = PresetMode(active_state)
               /\ HvacAction(burner_info') = HvacAction(burner_info)
               /\ data' \in {data, ApiResult(cmd.ex)}]_vars

\* The device answered a set-hvac-mode request that carried
\* temperatureState 1 while activeState 4 is decoded, and 4 it remains
C18_Witness ==
    /\ cmd.op = "set_hvac_mode"
    /\ cmd.out = "returned"
    /\ Truthy(data)
    /\ "result" \in DOMAIN data.map
    /\ active_state = 4
    /\ hvac_mode = HVAC_MODE_OFF
    /\ PresetMode(active_state) = PRESET_ECO

\* The hosts whose entity a unique_id names: the host inside an old
\* unique_id, the host of the entry inside a new one
OwnerHosts(unique_id) ==
    {h \in Hosts : \E n \in {DEFAULT_NAME, Toon, LivingRoom} :
                      unique_id = OldUniqueId(n, h)}
    \cup {e.host : e \in {x \in ConfigEntries : unique_id = NewUniqueId(x)}}

\* C16: async_migrate_entities for an entry changes the unique_id only of
\* an entity of that entry's host; the entity of another entry, carrying
\* that entry's new unique_id, keeps it.
C16_MigratesOwnHostOnly ==
    [][\A entry \in ConfigEntries :
          AsyncMigrateEntities(entry)
              => \A ent \in registry :
                    ent \notin registry'
                        => entry.host \in OwnerHosts(ent.unique_id)]_vars

\* The decoded fields are those of the device's snapshot
Synced ==
    /\ active_state = dev["activeState"]
    /\ burner_info = dev["burnerInfo"]
    /\ modulation_level = dev["currentModulationLevel"]
    /\ current_setpoint = dev["currentSetpoint"] * 10
    /\ current_temperature = dev["currentTemp"] * 10
    /\ ot_comm_error = dev["otCommError"]
    /\ program_state = dev["programState"]
    /\ hvac_mode = HvacModeOf(dev["activeState"], dev["programState"])

\* C14: whatever polls and commands failed before, an idle entity can
\* start a poll, and once the device answers every poll with its whole
\* snapshot the decoded state eventually equals that snapshot.
C14_PollingSurvivesFailures ==
    /\ [](poll.pc = "idle" => ENABLED StartUpdate)
    /\ health.ok ~> Synced

\* The device became healthy after a poll and a command that raised,
\* and a later poll brought the decoded state to the device's
C14_Witness ==
    /\ health.ok
    /\ health.after_failures
    /\ poll.out = "returned"
    /\ Synced

====
